---- MODULE Spec2Model ----
(***************************************************************************)
(* The training loops of Notebook-Readme.ipynb as one state machine.       *)
(*                                                                         *)
(* Every code cell of the notebook is a straight-line script: create data, *)
(* loop, forward pass, loss, backward pass, update.  `loop` names the cell *)
(* being run and `pc` the statement about to execute.  Tensors are         *)
(* modelled at shape 1x1 (N = D_in = H = D_out = 1) with integer entries,  *)
(* so a matrix product is a product and a full reduction sums one element. *)
(* The autograd machinery the cells call (graph recording, loss.backward,  *)
(* zero_grad, torch.no_grad, optimizer.step) is modelled at the call site. *)
(***************************************************************************)
EXTENDS Integers, Sequences, FiniteSets, TLC

\* Number of loop iterations explored (the loops themselves run range(500)).
MaxIter == 2

\* for t in range(500)
NumIters == 500

\* Largest weight magnitude from which another iteration is explored: the
\* gradient steps of the model are whole multiples of the weights' grid, and
\* the products of a forward and backward pass must stay within TLC's integers.
MaxWeight == 2

VARIABLES
    loop,           \* which cell of the notebook is running
    t,              \* the loop counter of `for t in range(500)`
    pc,             \* the statement about to execute
    x, y,           \* input and target tensors
    param,          \* values of the learnable tensors, by name
    grad,           \* the .grad accumulator of every leaf tensor, by name
    requires_grad,  \* the requires_grad flag of every leaf tensor, by name
    grad_fn,        \* the node that produced a leaf tensor's value (0: a leaf)
    grad_enabled,   \* FALSE inside `with torch.no_grad():`
    graph,          \* recorded operation nodes still referenced, by node id
    next_id,        \* id the next recorded node gets
    h, h_relu, y_pred, loss,   \* the tensors the forward pass binds
    cursor,         \* node loss.backward() visits next (0: not traversing)
    gout,           \* gradient flowing into the node at `cursor`
    bp,             \* locals of the hand-written backprop (numpy / Tensor cells)
    opt_state,      \* per-parameter state kept by the optimizer object
    k,              \* result of random.randint(0, 3) in DynamicNet.forward
    mid_i,          \* iterations of DynamicNet.forward's loop done so far
    param_i,        \* parameters `for param in model.parameters()` has done
    updates,        \* how many update passes have covered each parameter
    out             \* the loss values printed so far

vars == <<loop, t, pc, x, y, param, grad, requires_grad, grad_fn, grad_enabled,
          graph, next_id, h, h_relu, y_pred, loss, cursor, gout, bp, opt_state,
          k, mid_i, param_i, updates, out>>

-----------------------------------------------------------------------------
(* The cells *)

ManualLoops   == {"numpy", "tensor"}
AutogradLoops == {"autograd", "custom_function"}
RawLoops      == ManualLoops \cup AutogradLoops
ModuleLoops   == {"nn", "optim", "module", "dynamic_net"}
Loops         == RawLoops \cup ModuleLoops

\* learning_rate = 1e-6 in the raw cells, 1e-4 in the nn / optim cells:
\* the denominator of the rate.
LrDen(l) == IF l \in RawLoops THEN 1000000 ELSE 10000

\* Integer quotient rounded toward zero.
TDiv(a, b) == IF a >= 0 THEN a \div b ELSE -((-a) \div b)

\* learning_rate * g on the integer grid of the model.
Scaled(l, g) == TDiv(g, LrDen(l))

\* Inputs are drawn on a grid of spacing U with learning_rate * U * U = 1, so
\* that a weight step learning_rate * grad is a whole number wherever the
\* gradient is a product of two inputs.
Unit(l) == IF l \in RawLoops THEN 1000 ELSE 100

WeightsOf(l) ==
    CASE l \in RawLoops -> {"w1", "w2"}
      [] l \in {"nn", "optim", "module"} -> {"linear1.weight", "linear2.weight"}
      [] l = "dynamic_net" ->
            {"input_linear.weight", "middle_linear.weight", "output_linear.weight"}

BiasesOf(l) ==
    CASE l \in RawLoops -> {}
      [] l \in {"nn", "optim", "module"} -> {"linear1.bias", "linear2.bias"}
      [] l = "dynamic_net" ->
            {"input_linear.bias", "middle_linear.bias", "output_linear.bias"}

\* model.parameters()
ParamsOf(l) == WeightsOf(l) \cup BiasesOf(l)

\* The leaf tensors of a cell.
LeavesOf(l) == {"x", "y"} \cup ParamsOf(l)

\* Mutant of InitRequiresGrad: no tensor is created with requires_grad=True.
InitRequiresGrad_None(l) == [p \in LeavesOf(l) |-> FALSE]

\* Mutant of InitRequiresGrad: every tensor is created with requires_grad=True.
InitRequiresGrad_All(l) == [p \in LeavesOf(l) |-> TRUE]

\* requires_grad as the cell constructs each tensor.
InitRequiresGrad(l) ==
    [p \in LeavesOf(l) |->
        IF p \in {"x", "y"} THEN FALSE
        ELSE IF l \in ManualLoops THEN FALSE
        ELSE TRUE]

-----------------------------------------------------------------------------
(* Tensors and .grad accumulators *)

\* A tensor the forward pass binds: its value, the node that created it
\* (grad_fn, 0 for none) and whether it is 0-dimensional.
T(v, fn, scalar) == [v |-> v, fn |-> fn, scalar |-> scalar]

Unbound == T(0, 0, FALSE)

\* .grad is None until a backward pass reaches the tensor.
None == [none |-> TRUE, v |-> 0]

Some(v) == [none |-> FALSE, v |-> v]

-----------------------------------------------------------------------------
(* Operators on values *)

\* x.mm(w), x.dot(w)
mm(a, w) == a * w

\* torch.nn.Linear: a.mm(weight) + bias
linear(a, w, b) == a * w + b

\* h.clamp(min=0), np.maximum(h, 0), torch.nn.ReLU()
clamp_min0(v) == IF v < 0 THEN 0 ELSE v

\* MyReLU.forward: return x.clamp(min=0)
MyReLU_forward(v) == clamp_min0(v)

\* Mutant of MyReLU_backward: the mask is x <= 0.
MyReLU_backward_le(xs, grad_output) == IF xs <= 0 THEN 0 ELSE grad_output

\* Mutant of MyReLU_backward: the mask is x > 0.
MyReLU_backward_flip(xs, grad_output) == IF xs > 0 THEN 0 ELSE grad_output

\* MyReLU.backward: grad_x = grad_output.clone(); grad_x[x < 0] = 0
MyReLU_backward(xs, grad_output) == IF xs < 0 THEN 0 ELSE grad_output

\* Mutant of MyReLU_backward_operands: the mask is written into grad_output
\* itself, without the clone.
MyReLU_backward_InPlace(xs, grad_output) ==
    [x |-> xs, grad_output |-> MyReLU_backward(xs, grad_output)]

\* What MyReLU.backward leaves in the tensors it is given: x comes from
\* ctx.saved_tensors and is only read, grad_output is cloned before the
\* masked write, which goes into the clone.
MyReLU_backward_operands(xs, grad_output) == [x |-> xs, grad_output |-> grad_output]

\* What MyReLU.forward leaves in its input: x.clamp(min=0) is out of place.
MyReLU_forward_operand(v) == v

\* What the masking of the hand-written pass leaves in h and grad_h_relu:
\* grad_h is a copy, the masked write goes into the copy, h is only read.
MaskGradH_operands(hv, grad_h_relu) == [h |-> hv, grad_h_relu |-> grad_h_relu]

\* Mutant of MaskGradH: the mask is h <= 0.
MaskGradH_le(hv, grad_h_relu) == IF hv <= 0 THEN 0 ELSE grad_h_relu

\* grad_h = grad_h_relu.copy(); grad_h[h < 0] = 0
MaskGradH(hv, grad_h_relu) == IF hv < 0 THEN 0 ELSE grad_h_relu

\* Backward of Tensor.clamp(min=0): grad * (input >= min).
clamp_backward(a, g) == IF a >= 0 THEN g ELSE 0

\* Backward of torch.nn.ReLU: grad where input > 0, else 0.
relu_backward(a, g) == IF a > 0 THEN g ELSE 0

-----------------------------------------------------------------------------
(* Graph recording *)

\* One recorded operation: the node of its derived input (inp, 0 for none),
\* the values it saved for backward (a: the input, w: the weight), the leaf
\* tensors it read, the iteration that created it, how many times the
\* backward traversal has visited it, and the grad_output its backward
\* function was last called with.
Node(op, inp, a, w, aLeaf, wLeaf, bLeaf) ==
    [op |-> op, iter |-> t, inp |-> inp, a |-> a, w |-> w,
     aLeaf |-> aLeaf, wLeaf |-> wLeaf, bLeaf |-> bLeaf, visited |-> 0,
     grad_output |-> 0]

\* An operation is recorded when recording is on and an input tracks gradients.
NeedsGrad(inp, leaves) ==
    grad_enabled /\ (inp # 0 \/ \E p \in leaves : p # "" /\ requires_grad[p])

Store == [graph |-> graph, next_id |-> next_id]

\* Run one operation with result `val` against the store `st`.
Apply(st, val, scalar, op, inp, a, w, aLeaf, wLeaf, bLeaf) ==
    IF NeedsGrad(inp, {aLeaf, wLeaf, bLeaf})
    THEN [tensor  |-> T(val, st.next_id, scalar),
          graph   |-> st.graph @@
                      (st.next_id :> Node(op, inp, a, w, aLeaf, wLeaf, bLeaf)),
          next_id |-> st.next_id + 1]
    ELSE [tensor |-> T(val, 0, scalar), graph |-> st.graph, next_id |-> st.next_id]

\* The nodes reachable backward from node `id` in store `g`.
RECURSIVE Reach(_, _)
Reach(g, id) ==
    IF id = 0 \/ id \notin DOMAIN g THEN {} ELSE {id} \cup Reach(g, g[id].inp)

\* Rebinding `loss` drops the last reference to the previous graph.
Release(g, root) == [i \in Reach(g, root) |-> g[i]]

-----------------------------------------------------------------------------
(* Control flow of a loop body *)

FirstPc(l) == IF l \in RawLoops THEN "mm1" ELSE "linear_in"

\* Whether every weight is within the magnitude the model explores.
InRange(pv) == \A p \in DOMAIN pv : -MaxWeight <= pv[p] /\ pv[p] <= MaxWeight

\* A run at rest: zero target and all-zero weights, where every iteration of
\* a two-layer cell predicts 0, has loss 0 and leaves the weights as they are.
\* Such runs are explored through all the iterations of the loop.
AtRest(l, pv) ==
    /\ l # "dynamic_net"
    /\ x = Unit(l) /\ y = 0
    /\ \A p \in DOMAIN pv : pv[p] = 0

\* Mutant of LoopNext: the loop ends as soon as the weights are at rest.
LoopNext_StopAtRest(l, tt, pv) ==
    IF tt + 1 >= NumIters \/ AtRest(l, pv) THEN "done"
    ELSE IF tt + 1 < MaxIter /\ InRange(pv) THEN FirstPc(l)
    ELSE "capped"

\* for t in range(500): the statement after the last one of the body, with
\* the weights pv the body leaves.  "capped" ends the exploration, not the loop.
LoopNext(l, tt, pv) ==
    IF tt + 1 >= NumIters THEN "done"
    ELSE IF (tt + 1 < MaxIter /\ InRange(pv)) \/ AtRest(l, pv) THEN FirstPc(l)
    ELSE "capped"

\* Mutant of AfterPrint: the body goes from the loss report straight to the
\* update, without a backward pass.
AfterPrint_NoBackward(l) ==
    CASE l \in ManualLoops   -> "manual_update_w1"
      [] l \in AutogradLoops -> "no_grad"
      [] l = "nn"            -> "no_grad"
      [] OTHER               -> "step"

\* The statement after print(t, loss).
AfterPrint(l) ==
    CASE l \in ManualLoops   -> "grad_y_pred"
      [] l \in AutogradLoops -> "backward"
      [] l \in ModuleLoops   -> "zero_grad"

\* Mutant of AfterBackward: loss.backward() is called a second time.
AfterBackward_Again(l) == "backward"

\* The statement after loss.backward().
AfterBackward(l) ==
    CASE l \in AutogradLoops -> "no_grad"
      [] l = "nn"            -> "no_grad"
      [] OTHER               -> "step"

-----------------------------------------------------------------------------
(* Initial state *)

InitParams(l) ==
    CASE l \in RawLoops -> [ParamsOf(l) -> {-1, 0, 1}]
      [] l \in {"nn", "optim", "module"} ->
            {f \in [ParamsOf(l) -> {-1, 0, 1}] :
                \A b \in BiasesOf(l) : f[b] \in {0, 1}}
      [] l = "dynamic_net" ->
            {f \in [ParamsOf(l) -> {-1, 0, 1}] :
                /\ f["input_linear.weight"] # 0
                /\ f["output_linear.weight"] # 0
                /\ f["input_linear.bias"] = 0
                /\ f["output_linear.bias"] = 0
                /\ f["middle_linear.bias"] \in {0, 1}}

Init ==
    /\ loop \in Loops
    /\ t = 0
    /\ pc = FirstPc(loop)
    /\ x \in {-Unit(loop), Unit(loop)}
    /\ y \in {-Unit(loop), 0, Unit(loop)}
    /\ param \in InitParams(loop)
    /\ grad = [p \in LeavesOf(loop) |-> None]
    /\ requires_grad = InitRequiresGrad(loop)
    /\ grad_fn = [p \in LeavesOf(loop) |-> 0]
    /\ grad_enabled = TRUE
    /\ graph = <<>>
    /\ next_id = 1
    /\ h = Unbound /\ h_relu = Unbound /\ y_pred = Unbound /\ loss = Unbound
    /\ cursor = 0
    /\ gout = 0
    /\ bp = [grad_y_pred |-> 0, grad_w2 |-> 0, grad_h_relu |-> 0,
             grad_h |-> 0, grad_w1 |-> 0]
    /\ opt_state = [p \in ParamsOf(loop) |-> [step |-> 0, m |-> None, v |-> 0]]
    /\ k = 0
    /\ mid_i = 0
    /\ param_i = 0
    /\ updates = [p \in ParamsOf(loop) |-> 0]
    /\ out = <<>>

-----------------------------------------------------------------------------
(* Forward pass of the raw cells *)

\* Mutant of InputTensor: the input carries the history of the previous loss.
InputTensor_Stale == T(x, loss.fn, FALSE)

\* x = torch.randn(N, D_in): a leaf created once, outside any graph.
InputTensor == T(x, 0, FALSE)

\* h = x.dot(w1) / h = x.mm(w1) / the x.mm(w1) of the y_pred expression
Forward_mm1 ==
    /\ loop \in RawLoops /\ pc = "mm1"
    /\ LET r == Apply(Store, mm(InputTensor.v, param["w1"]), FALSE, "mm",
                      InputTensor.fn, InputTensor.v, param["w1"], "x", "w1", "")
       IN  /\ h' = r.tensor
           /\ graph' = r.graph
           /\ next_id' = r.next_id
    /\ pc' = "relu"
    /\ UNCHANGED <<loop, t, x, y, param, grad, requires_grad, grad_fn, grad_enabled,
                   h_relu, y_pred, loss, cursor, gout, bp, opt_state, k, mid_i, param_i, updates, out>>

\* h_relu = np.maximum(h, 0) / h.clamp(min=0) / MyReLU.apply(...)
Forward_relu ==
    /\ loop \in RawLoops /\ pc = "relu"
    /\ LET r == IF loop = "custom_function"
                THEN Apply(Store, MyReLU_forward(h.v), FALSE, "MyReLU", h.fn,
                           h.v, 0, "", "", "")
                ELSE Apply(Store, clamp_min0(h.v), FALSE, "clamp", h.fn,
                           h.v, 0, "", "", "")
       IN  /\ h_relu' = r.tensor
           /\ graph' = r.graph
           /\ next_id' = r.next_id
    /\ h' = IF loop = "custom_function"
            THEN [h EXCEPT !.v = MyReLU_forward_operand(h.v)]
            ELSE h
    /\ pc' = "mm2"
    /\ UNCHANGED <<loop, t, x, y, param, grad, requires_grad, grad_fn, grad_enabled,
                   y_pred, loss, cursor, gout, bp, opt_state, k, mid_i, param_i, updates, out>>

\* y_pred = h_relu.dot(w2) / h_relu.mm(w2)
Forward_mm2 ==
    /\ loop \in RawLoops /\ pc = "mm2"
    /\ LET r == Apply(Store, mm(h_relu.v, param["w2"]), FALSE, "mm", h_relu.fn,
                      h_relu.v, param["w2"], "", "w2", "")
       IN  /\ y_pred' = r.tensor
           /\ graph' = r.graph
           /\ next_id' = r.next_id
    /\ pc' = "loss"
    /\ UNCHANGED <<loop, t, x, y, param, grad, requires_grad, grad_fn, grad_enabled,
                   h, h_relu, loss, cursor, gout, bp, opt_state, k, mid_i, param_i, updates, out>>

\* loss = (y_pred - y).pow(2).sum() / np.square(y_pred - y).sum()
Forward_loss ==
    /\ loop \in RawLoops /\ pc = "loss"
    /\ LET d  == y_pred.v - y
           r1 == Apply(Store, d, FALSE, "sub", y_pred.fn, y_pred.v, 0, "", "", "y")
           r2 == Apply(r1, d * d, FALSE, "pow", r1.tensor.fn, d, 0, "", "", "")
           r3 == Apply(r2, d * d, TRUE, "sum", r2.tensor.fn, d * d, 0, "", "", "")
       IN  /\ loss' = r3.tensor
           /\ graph' = Release(r3.graph, r3.tensor.fn)
           /\ next_id' = r3.next_id
    /\ pc' = "print"
    /\ UNCHANGED <<loop, t, x, y, param, grad, requires_grad, grad_fn, grad_enabled,
                   h, h_relu, y_pred, cursor, gout, bp, opt_state, k, mid_i, param_i, updates, out>>

\* print(t, loss.item())
PrintLoss ==
    /\ pc = "print"
    /\ out' = Append(out, loss.v)
    /\ pc' = AfterPrint(loop)
    /\ UNCHANGED <<loop, t, x, y, param, grad, requires_grad, grad_fn, grad_enabled, graph,
                   next_id, h, h_relu, y_pred, loss, cursor, gout, bp, opt_state,
                   k, mid_i, param_i, updates>>

-----------------------------------------------------------------------------
(* loss.backward() *)

\* Mutant of GradInput: the backward of pow(2) drops the factor 2.
GradInput_PowUnscaled(n, g) ==
    CASE n.op \in {"mm", "addmm"}  -> g * n.w
      [] n.op \in {"clamp", "MyReLU"} -> clamp_backward(n.a, g)
      [] n.op = "relu"             -> relu_backward(n.a, g)
      [] n.op \in {"sub", "sum"}   -> g
      [] n.op \in {"pow", "mse_loss"} -> n.a * g

\* Gradient a node sends to its derived input, given the gradient g of its output.
GradInput(n, g) ==
    CASE n.op = "mm"       -> g * n.w
      [] n.op = "addmm"    -> g * n.w
      [] n.op = "clamp"    -> clamp_backward(n.a, g)
      [] n.op = "relu"     -> relu_backward(n.a, g)
      [] n.op = "MyReLU"   -> MyReLU_backward(n.a, g)
      [] n.op = "sub"      -> g
      [] n.op = "pow"      -> 2 * n.a * g
      [] n.op = "sum"      -> g
      [] n.op = "mse_loss" -> 2 * n.a * g

\* Gradient a node sends to the leaf in each of its slots.
GradLeaf(n, slot, g) ==
    CASE slot = "a" -> GradInput(n, g)
      [] slot = "w" -> n.a * g
      [] slot = "b" -> IF n.op \in {"sub", "mse_loss"} THEN -GradInput(n, g) ELSE g

\* Mutant of Accumulate: a later gradient overwrites the earlier ones.
Accumulate_Overwrite(acc, g) == Some(g)

\* AccumulateGrad: the first gradient is stored, later ones are added.
Accumulate(acc, g) == IF acc.none THEN Some(g) ELSE Some(acc.v + g)

\* .grad of every leaf after the traversal has visited node n with gradient g.
GradAfterVisit(n, g) ==
    [p \in DOMAIN grad |->
        IF ~requires_grad[p] THEN grad[p]
        ELSE IF p = n.wLeaf THEN Accumulate(grad[p], GradLeaf(n, "w", g))
        ELSE IF p = n.bLeaf THEN Accumulate(grad[p], GradLeaf(n, "b", g))
        ELSE IF p = n.aLeaf THEN Accumulate(grad[p], GradLeaf(n, "a", g))
        ELSE grad[p]]

\* loss.backward() is rejected on a tensor that is not a scalar, that has no
\* recorded graph, or whose graph was already consumed.
BackwardRejected ==
    \/ ~loss.scalar
    \/ loss.fn = 0
    \/ loss.fn \notin DOMAIN graph
    \/ graph[loss.fn].visited > 0

\* loss.backward(): seed d(loss)/d(loss) = 1 and start at the loss's node.
BackwardBegin ==
    /\ pc = "backward"
    /\ IF BackwardRejected
       THEN pc' = "error" /\ UNCHANGED <<cursor, gout>>
       ELSE pc' = "bw" /\ cursor' = loss.fn /\ gout' = 1
    /\ UNCHANGED <<loop, t, x, y, param, grad, requires_grad, grad_fn, grad_enabled, graph,
                   next_id, h, h_relu, y_pred, loss, bp, opt_state, k, mid_i, param_i, updates, out>>

\* The node the traversal visits after node n (reverse of forward construction).
NextNode(n) == n.inp

\* loss.backward(), one node: run its backward function, accumulate into the
\* leaves it read, pass the gradient on to the node that produced its input.
BackwardNode ==
    /\ pc = "bw" /\ cursor # 0
    /\ LET n == graph[cursor]
           after == IF n.op = "MyReLU"
                    THEN MyReLU_backward_operands(n.a, gout)
                    ELSE [x |-> n.a, grad_output |-> gout]
       IN  /\ graph' = [graph EXCEPT ![cursor].visited = @ + 1,
                                    ![cursor].a = after.x,
                                    ![cursor].grad_output = after.grad_output]
           /\ grad' = GradAfterVisit(n, gout)
           /\ gout' = GradInput(n, gout)
           /\ cursor' = NextNode(n)
           /\ pc' = IF NextNode(n) = 0 THEN AfterBackward(loop) ELSE "bw"
    /\ UNCHANGED <<loop, t, x, y, param, requires_grad, grad_fn, grad_enabled, next_id,
                   h, h_relu, y_pred, loss, bp, opt_state, k, mid_i, param_i, updates, out>>

-----------------------------------------------------------------------------
(* Update step of the autograd cells *)

\* Mutant of NoGradMode: the block leaves gradient tracking on.
NoGradMode_Tracking == TRUE

\* The grad mode inside `with torch.no_grad():`.
NoGradMode == FALSE

\* with torch.no_grad():
NoGradEnter ==
    /\ pc = "no_grad"
    /\ grad_enabled' = NoGradMode
    /\ pc' = IF loop = "nn" THEN "param_loop" ELSE "update_w1"
    /\ UNCHANGED <<loop, t, x, y, param, grad, requires_grad, grad_fn, graph, next_id,
                   h, h_relu, y_pred, loss, cursor, gout, bp, opt_state, k,
                   mid_i, param_i, updates, out>>

\* The store after the in-place `w -= learning_rate * w.grad`: recorded as a
\* node only when recording is on and w tracks gradients.
UpdateStore(w) ==
    Apply(Store, param[w] - Scaled(loop, grad[w].v), FALSE, "sub_", 0,
          param[w], 0, "", w, "")

\* w -= learning_rate * w.grad
UpdateWeight(w, nextpc) ==
    IF grad[w].none
    THEN pc' = "error" /\ UNCHANGED <<param, graph, next_id, grad_fn, updates>>
    ELSE /\ param' = [param EXCEPT ![w] = @ - Scaled(loop, grad[w].v)]
         /\ updates' = [updates EXCEPT ![w] = @ + 1]
         /\ graph' = UpdateStore(w).graph
         /\ next_id' = UpdateStore(w).next_id
         /\ grad_fn' = [grad_fn EXCEPT ![w] = UpdateStore(w).tensor.fn]
         /\ pc' = nextpc

\* w1 -= learning_rate * w1.grad
Update_w1 ==
    /\ loop \in AutogradLoops /\ pc = "update_w1"
    /\ UpdateWeight("w1", "update_w2")
    /\ UNCHANGED <<loop, t, x, y, grad, requires_grad, grad_enabled,
                   h, h_relu, y_pred, loss, cursor, gout, bp, opt_state, k,
                   mid_i, param_i, out>>

\* w2 -= learning_rate * w2.grad
Update_w2 ==
    /\ loop \in AutogradLoops /\ pc = "update_w2"
    /\ UpdateWeight("w2", "zero_w1")
    /\ UNCHANGED <<loop, t, x, y, grad, requires_grad, grad_enabled,
                   h, h_relu, y_pred, loss, cursor, gout, bp, opt_state, k,
                   mid_i, param_i, out>>

\* Mutant of ZeroedGrad: zero_() leaves the accumulator as it is.
ZeroedGrad_Keep(g) == g

\* w.grad.zero_()
ZeroedGrad(g) == Some(0)

\* w1.grad.zero_()
Zero_w1 ==
    /\ loop \in AutogradLoops /\ pc = "zero_w1"
    /\ IF grad["w1"].none
       THEN pc' = "error" /\ UNCHANGED grad
       ELSE grad' = [grad EXCEPT !["w1"] = ZeroedGrad(@)] /\ pc' = "zero_w2"
    /\ UNCHANGED <<loop, t, x, y, param, requires_grad, grad_fn, grad_enabled, graph,
                   next_id, h, h_relu, y_pred, loss, cursor, gout, bp, opt_state,
                   k, mid_i, param_i, updates, out>>

\* w2.grad.zero_(), the last statement of the no_grad block and of the body
Zero_w2 ==
    /\ loop \in AutogradLoops /\ pc = "zero_w2"
    /\ IF grad["w2"].none
       THEN pc' = "error" /\ UNCHANGED <<grad, grad_enabled, t>>
       ELSE /\ grad' = [grad EXCEPT !["w2"] = ZeroedGrad(@)]
            /\ grad_enabled' = TRUE
            /\ t' = t + 1
            /\ pc' = LoopNext(loop, t, param)
    /\ UNCHANGED <<loop, x, y, param, requires_grad, grad_fn, graph, next_id,
                   h, h_relu, y_pred, loss, cursor, gout, bp, opt_state, k,
                   mid_i, param_i, updates, out>>

-----------------------------------------------------------------------------
(* Hand-written backprop and update of the numpy and Tensor cells *)

\* grad_y_pred = 2.0 * (y_pred - y)
Grad_y_pred ==
    /\ loop \in ManualLoops /\ pc = "grad_y_pred"
    /\ bp' = [bp EXCEPT !.grad_y_pred = 2 * (y_pred.v - y)]
    /\ pc' = "grad_w2"
    /\ UNCHANGED <<loop, t, x, y, param, grad, requires_grad, grad_fn, grad_enabled, graph,
                   next_id, h, h_relu, y_pred, loss, cursor, gout, opt_state, k,
                   mid_i, param_i, updates, out>>

\* grad_w2 = h_relu.T.dot(grad_y_pred)
Grad_w2 ==
    /\ loop \in ManualLoops /\ pc = "grad_w2"
    /\ bp' = [bp EXCEPT !.grad_w2 = mm(h_relu.v, bp.grad_y_pred)]
    /\ pc' = "grad_h_relu"
    /\ UNCHANGED <<loop, t, x, y, param, grad, requires_grad, grad_fn, grad_enabled, graph,
                   next_id, h, h_relu, y_pred, loss, cursor, gout, opt_state, k,
                   mid_i, param_i, updates, out>>

\* grad_h_relu = grad_y_pred.dot(w2.T)
Grad_h_relu ==
    /\ loop \in ManualLoops /\ pc = "grad_h_relu"
    /\ bp' = [bp EXCEPT !.grad_h_relu = mm(bp.grad_y_pred, param["w2"])]
    /\ pc' = "grad_h"
    /\ UNCHANGED <<loop, t, x, y, param, grad, requires_grad, grad_fn, grad_enabled, graph,
                   next_id, h, h_relu, y_pred, loss, cursor, gout, opt_state, k,
                   mid_i, param_i, updates, out>>

\* grad_h = grad_h_relu.copy(); grad_h[h < 0] = 0
Grad_h ==
    /\ loop \in ManualLoops /\ pc = "grad_h"
    /\ bp' = [bp EXCEPT !.grad_h = MaskGradH(h.v, bp.grad_h_relu),
                        !.grad_h_relu = MaskGradH_operands(h.v, @).grad_h_relu]
    /\ h' = [h EXCEPT !.v = MaskGradH_operands(@, bp.grad_h_relu).h]
    /\ pc' = "grad_w1"
    /\ UNCHANGED <<loop, t, x, y, param, grad, requires_grad, grad_fn, grad_enabled, graph,
                   next_id, h_relu, y_pred, loss, cursor, gout, opt_state, k,
                   mid_i, param_i, updates, out>>

\* grad_w1 = x.T.dot(grad_h)
Grad_w1 ==
    /\ loop \in ManualLoops /\ pc = "grad_w1"
    /\ bp' = [bp EXCEPT !.grad_w1 = mm(x, bp.grad_h)]
    /\ pc' = "manual_update_w1"
    /\ UNCHANGED <<loop, t, x, y, param, grad, requires_grad, grad_fn, grad_enabled, graph,
                   next_id, h, h_relu, y_pred, loss, cursor, gout, opt_state, k,
                   mid_i, param_i, updates, out>>

\* w1 -= learning_rate * grad_w1
ManualUpdate_w1 ==
    /\ loop \in ManualLoops /\ pc = "manual_update_w1"
    /\ param' = [param EXCEPT !["w1"] = @ - Scaled(loop, bp.grad_w1)]
    /\ updates' = [updates EXCEPT !["w1"] = @ + 1]
    /\ pc' = "manual_update_w2"
    /\ UNCHANGED <<loop, t, x, y, grad, requires_grad, grad_fn, grad_enabled, graph,
                   next_id, h, h_relu, y_pred, loss, cursor, gout, bp, opt_state,
                   k, mid_i, param_i, out>>

\* w2 -= learning_rate * grad_w2, the last statement of the body
ManualUpdate_w2 ==
    /\ loop \in ManualLoops /\ pc = "manual_update_w2"
    /\ param' = [param EXCEPT !["w2"] = @ - Scaled(loop, bp.grad_w2)]
    /\ updates' = [updates EXCEPT !["w2"] = @ + 1]
    /\ t' = t + 1
    /\ pc' = LoopNext(loop, t, param')
    /\ UNCHANGED <<loop, x, y, grad, requires_grad, grad_fn, grad_enabled, graph,
                   next_id, h, h_relu, y_pred, loss, cursor, gout, bp, opt_state,
                   k, mid_i, param_i, out>>

-----------------------------------------------------------------------------
(* Forward pass of the nn cells: Sequential, TwoLayerNet, DynamicNet *)

\* The parameters of the first and last Linear module, and of the shared one.
W_in(l)  == IF l = "dynamic_net" THEN "input_linear.weight" ELSE "linear1.weight"
B_in(l)  == IF l = "dynamic_net" THEN "input_linear.bias" ELSE "linear1.bias"
W_out(l) == IF l = "dynamic_net" THEN "output_linear.weight" ELSE "linear2.weight"
B_out(l) == IF l = "dynamic_net" THEN "output_linear.bias" ELSE "linear2.bias"
W_mid    == "middle_linear.weight"
B_mid    == "middle_linear.bias"

\* A Linear module applied to tensor `a`, against store `st`.
ApplyLinear(st, a, aLeaf, w, b) ==
    Apply(st, linear(a.v, param[w], param[b]), FALSE, "addmm", a.fn,
          a.v, param[w], aLeaf, w, b)

\* torch.nn.Linear(D_in, H)(x) / self.linear1(x) / self.input_linear(x)
Module_linear_in ==
    /\ loop \in ModuleLoops /\ pc = "linear_in"
    /\ LET r == ApplyLinear(Store, InputTensor, "x", W_in(loop), B_in(loop))
       IN  /\ h' = r.tensor
           /\ graph' = r.graph
           /\ next_id' = r.next_id
    /\ pc' = "relu_in"
    /\ UNCHANGED <<loop, t, x, y, param, grad, requires_grad, grad_fn, grad_enabled,
                   h_relu, y_pred, loss, cursor, gout, bp, opt_state, k, mid_i,
                   param_i, updates, out>>

\* torch.nn.ReLU() in the Sequential models, .clamp(min=0) in the Module subclasses
Module_relu ==
    /\ loop \in ModuleLoops /\ pc = "relu_in"
    /\ LET r == Apply(Store, clamp_min0(h.v), FALSE,
                      IF loop \in {"nn", "optim"} THEN "relu" ELSE "clamp",
                      h.fn, h.v, 0, "", "", "")
       IN  /\ h_relu' = r.tensor
           /\ graph' = r.graph
           /\ next_id' = r.next_id
    /\ pc' = IF loop = "dynamic_net" THEN "randint" ELSE "linear_out"
    /\ UNCHANGED <<loop, t, x, y, param, grad, requires_grad, grad_fn, grad_enabled,
                   h, y_pred, loss, cursor, gout, bp, opt_state, k, mid_i,
                   param_i, updates, out>>

\* Mutant of Randint03: the draw is between 1 and 4.
Randint14 == 1 .. 4

\* random.randint(0, 3): both ends included.
Randint03 == 0 .. 3

\* for _ in range(random.randint(0, 3)):
Module_randint ==
    /\ loop = "dynamic_net" /\ pc = "randint"
    /\ \E kk \in Randint03 :
          /\ k' = kk
          /\ pc' = IF 0 < kk THEN "middle" ELSE "linear_out"
    /\ mid_i' = 0
    /\ UNCHANGED <<loop, t, x, y, param, grad, requires_grad, grad_fn, grad_enabled,
                   graph, next_id, h, h_relu, y_pred, loss, cursor, gout, bp,
                   opt_state, param_i, updates, out>>

\* h_relu = self.middle_linear(h_relu).clamp(min=0)
Module_middle ==
    /\ loop = "dynamic_net" /\ pc = "middle"
    /\ LET r1 == ApplyLinear(Store, h_relu, "", W_mid, B_mid)
           r2 == Apply(r1, clamp_min0(r1.tensor.v), FALSE, "clamp",
                       r1.tensor.fn, r1.tensor.v, 0, "", "", "")
       IN  /\ h_relu' = r2.tensor
           /\ graph' = r2.graph
           /\ next_id' = r2.next_id
    /\ mid_i' = mid_i + 1
    /\ pc' = IF mid_i + 1 < k THEN "middle" ELSE "linear_out"
    /\ UNCHANGED <<loop, t, x, y, param, grad, requires_grad, grad_fn, grad_enabled,
                   h, y_pred, loss, cursor, gout, bp, opt_state, k, param_i, updates, out>>

\* torch.nn.Linear(H, D_out) / self.linear2(h_relu) / self.output_linear(h_relu)
Module_linear_out ==
    /\ loop \in ModuleLoops /\ pc = "linear_out"
    /\ LET r == ApplyLinear(Store, h_relu, "", W_out(loop), B_out(loop))
       IN  /\ y_pred' = r.tensor
           /\ graph' = r.graph
           /\ next_id' = r.next_id
    /\ pc' = "mse"
    /\ UNCHANGED <<loop, t, x, y, param, grad, requires_grad, grad_fn, grad_enabled,
                   h, h_relu, loss, cursor, gout, bp, opt_state, k, mid_i,
                   param_i, updates, out>>

\* loss = loss_fn(y_pred, y) with torch.nn.MSELoss(reduction='sum')
Module_loss ==
    /\ loop \in ModuleLoops /\ pc = "mse"
    /\ LET d == y_pred.v - y
           r == Apply(Store, d * d, TRUE, "mse_loss", y_pred.fn, d, 0, "", "", "y")
       IN  /\ loss' = r.tensor
           /\ graph' = Release(r.graph, r.tensor.fn)
           /\ next_id' = r.next_id
    /\ pc' = "print"
    /\ UNCHANGED <<loop, t, x, y, param, grad, requires_grad, grad_fn, grad_enabled,
                   h, h_relu, y_pred, cursor, gout, bp, opt_state, k, mid_i,
                   param_i, updates, out>>

-----------------------------------------------------------------------------
(* zero_grad and the update of the nn cells *)

\* Mutant of ZeroGradOf: zero_grad leaves the accumulator as it is.
ZeroGradOf_Keep(g) == g

\* zero_grad on one accumulator: a gradient that exists is zeroed in place,
\* one that is still None is left alone.
ZeroGradOf(g) == IF g.none THEN g ELSE Some(0)

\* model.zero_grad() / optimizer.zero_grad()
ZeroGrad ==
    /\ loop \in ModuleLoops /\ pc = "zero_grad"
    /\ grad' = [p \in DOMAIN grad |->
                   IF p \in ParamsOf(loop) THEN ZeroGradOf(grad[p]) ELSE grad[p]]
    /\ pc' = "backward"
    /\ UNCHANGED <<loop, t, x, y, param, requires_grad, grad_fn, grad_enabled, graph,
                   next_id, h, h_relu, y_pred, loss, cursor, gout, bp, opt_state,
                   k, mid_i, param_i, updates, out>>

\* model.parameters(), in registration order
ParamSeq(l) ==
    IF l = "dynamic_net"
    THEN <<"input_linear.weight", "input_linear.bias", "middle_linear.weight",
           "middle_linear.bias", "output_linear.weight", "output_linear.bias">>
    ELSE <<"linear1.weight", "linear1.bias", "linear2.weight", "linear2.bias">>

\* for param in model.parameters(): param.data -= learning_rate * param.grad
\* (.data is outside autograd: nothing is recorded whatever the grad mode)
ParamLoopUpdate ==
    /\ loop = "nn" /\ pc = "param_loop"
    /\ LET p    == ParamSeq(loop)[param_i + 1]
           last == param_i + 1 = Len(ParamSeq(loop))
       IN  IF grad[p].none
           THEN pc' = "error" /\ UNCHANGED <<param, param_i, updates, grad_enabled, t>>
           ELSE /\ param' = [param EXCEPT ![p] = @ - Scaled(loop, grad[p].v)]
                /\ updates' = [updates EXCEPT ![p] = @ + 1]
                /\ param_i' = IF last THEN 0 ELSE param_i + 1
                /\ grad_enabled' = IF last THEN TRUE ELSE grad_enabled
                /\ t' = IF last THEN t + 1 ELSE t
                /\ pc' = IF last THEN LoopNext(loop, t, param') ELSE "param_loop"
    /\ UNCHANGED <<loop, x, y, grad, requires_grad, grad_fn, graph, next_id,
                   h, h_relu, y_pred, loss, cursor, gout, bp, opt_state, k,
                   mid_i, out>>

\* The largest r in lo..hi with r * r <= n.
RECURSIVE IsqrtIn(_, _, _)
IsqrtIn(n, lo, hi) ==
    IF lo >= hi THEN lo
    ELSE LET mid == (lo + hi + 1) \div 2
         IN  IF mid * mid <= n THEN IsqrtIn(n, mid, hi) ELSE IsqrtIn(n, lo, mid - 1)

Isqrt(n) == IsqrtIn(n, 0, 46340)

\* Mutant of OptStateAfter: every optimizer counts its steps per parameter.
OptStateAfter_Counting(l, st, g) == [st EXCEPT !.step = @ + 1]

\* The optimizer's state for one parameter after step() has seen gradient g.
\*   SGD(lr=1e-4): no state.
\*   SGD(lr=1e-4, momentum=0.9): buf = g at first, then 0.9 * buf + g.
\*   Adam(lr=1e-4): step count, exp_avg (0.9) and exp_avg_sq (0.999).
OptStateAfter(l, st, g) ==
    CASE l = "module" -> st
      [] l = "dynamic_net" ->
            [st EXCEPT !.step = @ + 1,
                       !.m = IF st.m.none THEN Some(g)
                             ELSE Some(st.m.v - TDiv(st.m.v, 10) + g)]
      [] l = "optim" ->
            [st EXCEPT !.step = @ + 1,
                       !.m = Some(st.m.v + TDiv(g - st.m.v, 10)),
                       !.v = st.v + TDiv(g * g - st.v, 1000)]

\* The amount step() subtracts from the parameter, on the model's grid.
\* Adam's step lr * exp_avg / (sqrt(exp_avg_sq) + eps) is taken without the
\* bias-correction factors.
OptDelta(l, st, g) ==
    CASE l = "module"      -> Scaled(l, g)
      [] l = "dynamic_net" -> Scaled(l, OptStateAfter(l, st, g).m.v)
      [] l = "optim" ->
            TDiv(OptStateAfter(l, st, g).m.v,
                 LrDen(l) * (Isqrt(OptStateAfter(l, st, g).v) + 1))

\* optimizer.step(): every parameter that has a gradient is updated; the
\* optimizer works on the parameters' data and records nothing.
OptimizerStep ==
    /\ loop \in {"optim", "module", "dynamic_net"} /\ pc = "step"
    /\ param' = [p \in DOMAIN param |->
                    IF grad[p].none THEN param[p]
                    ELSE param[p] - OptDelta(loop, opt_state[p], grad[p].v)]
    /\ opt_state' = [p \in DOMAIN opt_state |->
                        IF grad[p].none THEN opt_state[p]
                        ELSE OptStateAfter(loop, opt_state[p], grad[p].v)]
    /\ updates' = [p \in DOMAIN updates |-> updates[p] + 1]
    /\ t' = t + 1
    /\ pc' = LoopNext(loop, t, param')
    /\ UNCHANGED <<loop, x, y, grad, requires_grad, grad_fn, grad_enabled, graph,
                   next_id, h, h_relu, y_pred, loss, cursor, gout, bp, k, mid_i,
                   param_i, out>>

-----------------------------------------------------------------------------
Next ==
    \/ Forward_mm1 \/ Forward_relu \/ Forward_mm2 \/ Forward_loss \/ PrintLoss
    \/ BackwardBegin \/ BackwardNode
    \/ NoGradEnter \/ Update_w1 \/ Update_w2 \/ Zero_w1 \/ Zero_w2
    \/ Grad_y_pred \/ Grad_w2 \/ Grad_h_relu \/ Grad_h \/ Grad_w1
    \/ ManualUpdate_w1 \/ ManualUpdate_w2
    \/ Module_linear_in \/ Module_relu \/ Module_randint \/ Module_middle
    \/ Module_linear_out \/ Module_loss \/ ZeroGrad \/ ParamLoopUpdate
    \/ OptimizerStep

Spec == Init /\ [][Next]_vars

-----------------------------------------------------------------------------
(* Phases of a loop body *)

ForwardPcs == {"mm1", "relu", "mm2", "loss",
               "linear_in", "relu_in", "randint", "middle", "linear_out", "mse"}

ManualBackwardPcs == {"grad_y_pred", "grad_w2", "grad_h_relu", "grad_h", "grad_w1"}

BackwardPcs == {"backward", "bw"} \cup ManualBackwardPcs

UpdatePcs == {"no_grad", "update_w1", "update_w2", "zero_w1", "zero_w2",
              "param_loop", "step", "manual_update_w1", "manual_update_w2"}

Tracked == loop \notin ManualLoops

\* The nodes of the graph rooted at the current loss.
LossGraph == Reach(graph, loss.fn)

\* The nodes created by the current iteration.
NodesOfIter(i) == {id \in DOMAIN graph : graph[id].iter = i}

\* Operations one forward pass records.
ExpectedNodes == IF loop \in RawLoops THEN 6 ELSE 4 + 2 * k

\* The forward pass of iteration t has run to its end: the loss is a scalar
\* computed from this iteration's prediction and, where gradients are
\* tracked, roots a graph holding every operation of the pass.
ForwardComplete ==
    /\ loss.scalar
    /\ loss.v = (y_pred.v - y) * (y_pred.v - y)
    /\ Tracked =>
          /\ loss.fn \in DOMAIN graph
          /\ graph[loss.fn].iter = t
          /\ y_pred.fn \in LossGraph
          /\ NodesOfIter(t) = LossGraph
          /\ Cardinality(LossGraph) = ExpectedNodes

\* The backward pass of iteration t has run to its end.
BackwardComplete ==
    IF Tracked
    THEN cursor = 0 /\ \A id \in LossGraph : graph[id].visited = 1
    ELSE /\ bp.grad_w2 = h_relu.v * 2 * (y_pred.v - y)
         /\ bp.grad_w1 = x * bp.grad_h

\* The backward pass of iteration t has not begun.
BackwardNotBegun ==
    cursor = 0 /\ \A id \in NodesOfIter(t) : graph[id].visited = 0

\* Every parameter has had exactly n update statements.
UpdatesDone(n) == \A p \in ParamsOf(loop) : updates[p] = n

-----------------------------------------------------------------------------
(* C1: each iteration is strictly sequential.  While the forward pass runs,
   the previous iteration's update is complete and no backward traversal has
   begun; while the backward pass runs, the forward pass is complete and no
   update of this iteration has begun; while the update runs, forward and
   backward are both complete. *)
C1_StrictlySequential ==
    /\ pc \in ForwardPcs =>
          BackwardNotBegun /\ UpdatesDone(t) /\ grad_enabled
    /\ pc \in {"print", "zero_grad"} \cup BackwardPcs =>
          ForwardComplete /\ UpdatesDone(t) /\ grad_enabled
    /\ pc \in {"print", "zero_grad", "backward"} => BackwardNotBegun
    /\ pc \in UpdatePcs =>
          /\ ForwardComplete
          /\ BackwardComplete
          /\ \A p \in ParamsOf(loop) : updates[p] \in {t, t + 1}

\* C1's case: the second iteration's backward traversal is under way.
C1_Witness ==
    /\ loop = "optim" /\ t = 1 /\ pc = "bw"
    /\ cursor # loss.fn
    /\ UpdatesDone(1)
    /\ \E id \in LossGraph : graph[id].visited = 1
    /\ \E id \in LossGraph : graph[id].visited = 0

-----------------------------------------------------------------------------
\* A gradient accumulator that is zero or unset.
GradClear(p) == grad[p].none \/ grad[p].v = 0

(* C2, as stated: in every loop that uses autograd, no forward pass of a
   later iteration runs while a parameter still holds a non-zero gradient. *)
C2_Original ==
    (Tracked /\ pc \in ForwardPcs /\ t > 0) =>
        \A p \in ParamsOf(loop) : GradClear(p)

(* C2, amended: every gradient accumulator is zero or unset when the next
   backward traversal begins; in the manual-update autograd loops it is
   already so throughout the forward pass, because the reset follows the
   update, while the nn and optimizer loops reset between the loss report
   and loss.backward(). *)
C2_ResetBeforeBackward ==
    /\ (Tracked /\ pc = "backward") =>
          \A p \in ParamsOf(loop) : GradClear(p)
    /\ (loop \in AutogradLoops /\ pc \in ForwardPcs \cup {"print"}) =>
          \A p \in ParamsOf(loop) : GradClear(p)

\* C2's case: the nn loop has reset, after an update, the gradients of the
\* first iteration and is about to start the second backward traversal.
C2_Witness ==
    /\ loop = "nn" /\ t = 1 /\ pc = "backward"
    /\ UpdatesDone(1)
    /\ \A p \in ParamsOf(loop) : grad[p] = Some(0)
    /\ \E id \in DOMAIN graph : graph[id].wLeaf # "" /\ graph[id].w # 0

-----------------------------------------------------------------------------
\* The backward traversal has just run node n's backward function: gout is
\* what it returned for its input, n.grad_output what it was called with.
JustVisited(n) ==
    pc = "bw" /\ n.iter = t /\ n.visited = 1 /\ n.inp # 0 /\ cursor = n.inp

(* C3: the backward of the clamp operator returns 0 where the forward input
   was strictly negative and the incoming gradient unchanged elsewhere, also
   where the input is exactly 0; for MyReLU.backward and for the grad_h step
   of the numpy and Tensor cells. *)
C3_ClampBackward ==
    /\ \A id \in DOMAIN graph :
          (graph[id].op = "MyReLU" /\ JustVisited(graph[id])) =>
              /\ graph[id].a < 0 => gout = 0
              /\ graph[id].a >= 0 => gout = graph[id].grad_output
    /\ (loop \in ManualLoops /\ pc = "grad_w1") =>
          /\ h.v < 0 => bp.grad_h = 0
          /\ h.v >= 0 => bp.grad_h = bp.grad_h_relu

\* C3's case: the hand-written mask has run on an input that is exactly 0
\* with a non-zero incoming gradient.
C3_Witness ==
    /\ loop \in ManualLoops /\ pc = "grad_w1"
    /\ h.v = 0
    /\ bp.grad_h_relu # 0
    /\ bp.grad_h = bp.grad_h_relu

-----------------------------------------------------------------------------
(* C4, as stated: where the input of MyReLU is exactly zero, the gradient
   MyReLU.backward returns is zero, whatever the incoming gradient. *)
C4_Original ==
    \A id \in DOMAIN graph :
        (graph[id].op = "MyReLU" /\ JustVisited(graph[id]) /\ graph[id].a = 0) =>
            gout = 0

(* C4, amended: where the input of MyReLU is exactly zero, MyReLU.backward
   returns the incoming gradient unchanged. *)
C4_BoundaryPassesThrough ==
    \A id \in DOMAIN graph :
        (graph[id].op = "MyReLU" /\ JustVisited(graph[id]) /\ graph[id].a = 0) =>
            gout = graph[id].grad_output

\* C4's case: MyReLU.backward has run on an input that is exactly 0 with a
\* non-zero incoming gradient.
C4_Witness ==
    \E id \in DOMAIN graph :
        /\ graph[id].op = "MyReLU" /\ JustVisited(graph[id])
        /\ graph[id].a = 0
        /\ graph[id].grad_output # 0
        /\ gout = graph[id].grad_output
-----------------------------------------------------------------------------
(* DynamicNet unrolled: k copies of middle_linear, each with its own
   gradient, all holding the shared parameter values *)

RECURSIVE Unrolled_pre(_)
\* Input of the i-th clamp; the 0-th follows input_linear.
Unrolled_pre(i) ==
    IF i = 0
    THEN linear(x, param["input_linear.weight"], param["input_linear.bias"])
    ELSE linear(clamp_min0(Unrolled_pre(i - 1)), param[W_mid], param[B_mid])

\* Output of the i-th clamp.
Unrolled_hid(i) == clamp_min0(Unrolled_pre(i))

Unrolled_y_pred ==
    linear(Unrolled_hid(k), param["output_linear.weight"], param["output_linear.bias"])

RECURSIVE Unrolled_grad_pre(_)
\* d loss / d (input of the i-th clamp)
Unrolled_grad_pre(i) ==
    clamp_backward(Unrolled_pre(i),
                   IF i = k
                   THEN 2 * (Unrolled_y_pred - y) * param["output_linear.weight"]
                   ELSE Unrolled_grad_pre(i + 1) * param[W_mid])

\* Gradient of the weight of the i-th copy of middle_linear, 1 <= i <= k.
PerApplicationGrad(i) == Unrolled_hid(i - 1) * Unrolled_grad_pre(i)

RECURSIVE SumPerApplication(_)
SumPerApplication(i) ==
    IF i = 0 THEN 0 ELSE SumPerApplication(i - 1) + PerApplicationGrad(i)

\* Nodes of the current iteration with a given operator / weight.
NodesWithOp(op) == {id \in NodesOfIter(t) : graph[id].op = op}
NodesWithWeight(w) == {id \in NodesOfIter(t) : graph[id].wLeaf = w}

(* C5: after loss.backward() in the DynamicNet loop, the gradient of the
   shared middle_linear weight is the sum over the k applications of the
   gradient an unrolled network gives the weight of each copy; with k = 0
   the weight receives nothing and its gradient stays zero or unset. *)
C5_SharedWeightGradIsSum ==
    (loop = "dynamic_net" /\ pc = "step") =>
        /\ k > 0 => grad[W_mid] = Some(SumPerApplication(k))
        /\ k = 0 => GradClear(W_mid)
        /\ y_pred.v = Unrolled_y_pred

\* C5's case: three applications, each with a non-zero gradient of its own.
C5_Witness ==
    /\ loop = "dynamic_net" /\ pc = "step" /\ k = 3
    /\ \A i \in 1 .. 3 : PerApplicationGrad(i) # 0
    /\ grad[W_mid] = Some(SumPerApplication(3))
    /\ grad[W_mid].v # PerApplicationGrad(1)

-----------------------------------------------------------------------------
\* The statements of DynamicNet.forward after the middle loop, up to the update.
AfterMiddlePcs == {"linear_out", "mse", "print", "zero_grad", "backward", "bw", "step"}

(* C6: each DynamicNet forward pass applies input_linear once, the shared
   middle_linear k times and output_linear once, with k drawn from 0..3,
   every one of the four values being a possible draw; the pass has 1 + k
   clamps, between 1 and 4 hidden layers. *)
C6_HiddenLayerCount ==
    loop = "dynamic_net" =>
        /\ k \in 0 .. 3
        /\ pc = "randint" =>
              \A kk \in 0 .. 3 : ENABLED (Module_randint /\ k' = kk)
        /\ pc = "middle" =>
              /\ mid_i < k
              /\ Cardinality(NodesWithOp("clamp")) = 1 + mid_i
              /\ Cardinality(NodesWithWeight(W_mid)) = mid_i
        /\ pc \in AfterMiddlePcs =>
              /\ Cardinality(NodesWithOp("clamp")) = 1 + k
              /\ Cardinality(NodesWithOp("clamp")) \in 1 .. 4
              /\ Cardinality(NodesWithWeight(W_mid)) = k
              /\ Cardinality(NodesWithWeight("input_linear.weight")) = 1
        /\ pc \in AfterMiddlePcs \ {"linear_out"} =>
              Cardinality(NodesWithWeight("output_linear.weight")) = 1
        /\ pc \in ForwardPcs \ {"linear_out", "mse"} =>
              NodesWithWeight("output_linear.weight") = {}

\* C6's case: a forward pass with four hidden layers is complete.
C6_Witness ==
    /\ loop = "dynamic_net" /\ pc = "print" /\ k = 3
    /\ Cardinality(NodesWithOp("clamp")) = 4
    /\ Cardinality(NodesWithWeight(W_mid)) = 3

-----------------------------------------------------------------------------
\* The statements that change a weight, and those that reset a gradient.
ExplicitUpdatePcs == {"update_w1", "update_w2", "param_loop"}
GradZeroPcs == {"zero_w1", "zero_w2", "zero_grad"}

\* The recorded nodes are exactly those of the forward pass that made the loss.
OnlyForwardNodes == next_id = loss.fn + 1 /\ DOMAIN graph = LossGraph

(* C7, as stated: in every loop both the update of a weight and the
   gradient zeroing run inside the no-tracking scope. *)
C7_Original ==
    (Tracked /\ pc \in ExplicitUpdatePcs \cup GradZeroPcs) => ~grad_enabled

(* C7, amended: the update records no node, so that from the end of the
   forward pass to the start of the next one the recorded nodes are those of
   the forward pass, and at every forward statement each weight is a leaf
   with gradient tracking on.  The explicit updates (w -= ..., param.data -=
   ...) and the w.grad.zero_() calls run inside `with torch.no_grad():`;
   model.zero_grad(), optimizer.zero_grad() and optimizer.step() run with
   tracking enabled, outside any no-tracking scope. *)
C7_UpdateOutsideGraph ==
    Tracked =>
        /\ pc \in {"print", "zero_grad"} \cup BackwardPcs \cup UpdatePcs =>
              OnlyForwardNodes
        /\ (pc = FirstPc(loop) /\ t > 0) => OnlyForwardNodes
        /\ pc \in ExplicitUpdatePcs \cup {"zero_w1", "zero_w2"} => ~grad_enabled
        /\ pc \in {"zero_grad", "step"} => grad_enabled
        /\ pc \in ForwardPcs =>
              \A p \in ParamsOf(loop) : grad_fn[p] = 0 /\ requires_grad[p]

\* C7's case: the second forward pass of the autograd loop starts with a
\* weight the update has changed.
C7_Witness ==
    /\ loop = "autograd" /\ t = 1 /\ pc = "mm1"
    /\ UpdatesDone(1)
    /\ \E id \in DOMAIN graph :
          graph[id].wLeaf = "w1" /\ graph[id].w # param["w1"]
    /\ grad_fn["w1"] = 0 /\ requires_grad["w1"]
    /\ OnlyForwardNodes

-----------------------------------------------------------------------------
(* C8: the graph reachable from the loss of iteration t holds only nodes
   the forward pass of iteration t created, it holds all of them, and no
   edge joins nodes of two iterations; the iterations share leaves only. *)
C8_GraphRebuilt ==
    Tracked =>
        /\ pc \in {"print", "zero_grad"} \cup BackwardPcs \cup UpdatePcs =>
              /\ \A id \in LossGraph : graph[id].iter = t
              /\ LossGraph = NodesOfIter(t)
              /\ Cardinality(LossGraph) = ExpectedNodes
        /\ \A id \in DOMAIN graph :
              graph[id].inp # 0 =>
                  /\ graph[id].inp \in DOMAIN graph
                  /\ graph[graph[id].inp].iter = graph[id].iter
        /\ \A id \in DOMAIN graph : graph[id].iter \in {t - 1, t}
        /\ pc \in ForwardPcs =>
              \A id \in LossGraph : graph[id].iter = t - 1

\* C8's case: the second forward pass is complete; its graph and the first
\* one's read the same leaf.
C8_Witness ==
    /\ loop = "autograd" /\ t = 1 /\ pc = "print"
    /\ Cardinality(LossGraph) = 6
    /\ \A id \in LossGraph : graph[id].iter = 1
    /\ \E id \in LossGraph : graph[id].wLeaf = "w1"

-----------------------------------------------------------------------------
(* C9: every node is visited by at most one backward traversal; each
   iteration's loss.backward() runs once on the graph its forward pass
   built: not before the forward pass has ended, on every node of the graph
   by the time the update starts, accepted (a second call on the same graph
   is rejected), and with no node visited outside the traversal. *)
C9_ConsumedExactlyOnce ==
    Tracked =>
        /\ \A id \in DOMAIN graph : graph[id].visited <= 1
        /\ pc # "error"
        /\ pc \in ForwardPcs \cup {"print", "zero_grad", "backward"} =>
              /\ cursor = 0
              /\ \A id \in NodesOfIter(t) : graph[id].visited = 0
        /\ pc = "bw" =>
              /\ cursor \in LossGraph
              /\ graph[cursor].visited = 0
              /\ graph[loss.fn].visited = IF cursor = loss.fn THEN 0 ELSE 1
        /\ pc \in UpdatePcs \cup {"done", "capped"} =>
              /\ cursor = 0
              /\ \A id \in LossGraph : graph[id].visited = 1
        /\ \A id \in DOMAIN graph : graph[id].iter < t => graph[id].visited = 1

\* C9's case: the module loop has finished its second backward traversal.
C9_Witness ==
    /\ loop = "module" /\ t = 1 /\ pc = "step"
    /\ Cardinality(LossGraph) = 4
    /\ \A id \in LossGraph : graph[id].visited = 1 /\ graph[id].iter = 1

-----------------------------------------------------------------------------
\* A reset statement has run since the last backward traversal.
ResetHasRun == loop \in ModuleLoops \/ t > 0

(* C10, as stated: once a reset has run, every accumulator is exactly zero
   when the next backward traversal begins. *)
C10_Original ==
    (Tracked /\ pc = "backward" /\ ResetHasRun) =>
        \A p \in ParamsOf(loop) : grad[p] = Some(0)

(* C10, amended: when a backward traversal begins after a reset, every
   accumulator a backward traversal has reached before is exactly zero and
   every other one is still unset, zero_grad() leaving an unset gradient
   unset; in the loops that reset with w.grad.zero_() the accumulators stay
   exactly zero from the reset through the whole next forward pass. *)
C10_ZeroAtBackward ==
    /\ (Tracked /\ pc = "backward") =>
          \A p \in ParamsOf(loop) :
              /\ GradClear(p)
              /\ t = 0 => grad[p].none
              /\ (t > 0 /\ p \notin {W_mid, B_mid}) => grad[p] = Some(0)
              /\ loop = "dynamic_net" => (grad[p].none <=> opt_state[p].step = 0)
    /\ (loop \in AutogradLoops /\ t > 0
            /\ pc \in ForwardPcs \cup {"print", "backward"}) =>
          \A p \in ParamsOf(loop) : grad[p] = Some(0)

\* C10's case: the autograd loop is about to start its second backward
\* traversal, w.grad.zero_() having run on both weights.
C10_Witness ==
    /\ loop = "autograd" /\ t = 1 /\ pc = "backward"
    /\ grad["w1"] = Some(0) /\ grad["w2"] = Some(0)
    /\ UpdatesDone(1)
-----------------------------------------------------------------------------
(* The network as a function of its leaves: the forward values and the
   gradients of one iteration, computed from x, y and the parameter values
   (and, for DynamicNet, the draw k) alone *)

Leaf_w1 == IF loop \in RawLoops THEN param["w1"] ELSE param[W_in(loop)]
Leaf_b1 == IF loop \in RawLoops THEN 0 ELSE param[B_in(loop)]
Leaf_w2 == IF loop \in RawLoops THEN param["w2"] ELSE param[W_out(loop)]
Leaf_b2 == IF loop \in RawLoops THEN 0 ELSE param[B_out(loop)]

Net_h == linear(x, Leaf_w1, Leaf_b1)

\* The last hidden layer.
Net_h_relu ==
    IF loop = "dynamic_net" THEN Unrolled_hid(k) ELSE clamp_min0(Net_h)

Net_y_pred == linear(Net_h_relu, Leaf_w2, Leaf_b2)

Net_loss == (Net_y_pred - y) * (Net_y_pred - y)

Net_grad_y_pred == 2 * (Net_y_pred - y)

\* The derivative of the cell's ReLU at input a, applied to g.
ReluMask(a, g) ==
    IF loop \in {"nn", "optim"} THEN relu_backward(a, g) ELSE clamp_backward(a, g)

\* d loss / d h, h the input of the first ReLU.
Net_grad_h ==
    IF loop = "dynamic_net" THEN Unrolled_grad_pre(0)
    ELSE ReluMask(Net_h, Net_grad_y_pred * Leaf_w2)

RECURSIVE SumGradPre(_)
\* Sum over the applications 1..i of middle_linear of d loss / d (its output).
SumGradPre(i) == IF i = 0 THEN 0 ELSE SumGradPre(i - 1) + Unrolled_grad_pre(i)

\* d loss / d p for parameter p of the running cell.
Net_grad(p) ==
    CASE p \in {"w1", "linear1.weight", "input_linear.weight"} -> x * Net_grad_h
      [] p \in {"linear1.bias", "input_linear.bias"}            -> Net_grad_h
      [] p \in {"w2", "linear2.weight", "output_linear.weight"} ->
            Net_h_relu * Net_grad_y_pred
      [] p \in {"linear2.bias", "output_linear.bias"}           -> Net_grad_y_pred
      [] p = "middle_linear.weight" -> SumPerApplication(k)
      [] p = "middle_linear.bias"   -> SumGradPre(k)

\* The state of an optimizer that has seen no gradient.
FreshOptState == [step |-> 0, m |-> None, v |-> 0]

\* The statements between the end of the forward pass and the first change
\* of a parameter.
BeforeUpdatePcs == {"print", "zero_grad"} \cup BackwardPcs

\* The update is about to read the gradients; no parameter has changed yet.
UpdateStarts ==
    \/ pc \in {"no_grad", "step", "manual_update_w1"}
    \/ pc = "update_w1"
    \/ pc = "param_loop" /\ param_i = 0

-----------------------------------------------------------------------------
(* C11, as stated: the outcome of an iteration depends on the leaf values
   and the counter only, also in the loops driven by an optimizer object:
   the step the optimizer takes is the step a fresh optimizer would take on
   the same gradient. *)
C11_Original ==
    pc = "step" =>
        \A p \in ParamsOf(loop) :
            ~grad[p].none =>
                OptDelta(loop, opt_state[p], grad[p].v)
                    = OptDelta(loop, FreshOptState, grad[p].v)

(* C11, amended: what an iteration computes is a function of the leaf
   values it starts from (and the draw k): the forward values, the loss and
   every gradient the update reads, whatever the locals, the graph and the
   .grad accumulators the previous iteration left behind.  Beyond the leaves
   and the counter only the optimizer's per-parameter state crosses an
   iteration boundary, and only in the Adam and the SGD-with-momentum loops:
   every other loop keeps no such state. *)
C11_CarriedState ==
    /\ loop \notin {"optim", "dynamic_net"} =>
          \A p \in ParamsOf(loop) : opt_state[p] = FreshOptState
    /\ pc \in BeforeUpdatePcs \/ UpdateStarts =>
          /\ y_pred.v = Net_y_pred
          /\ h_relu.v = Net_h_relu
          /\ h.v = Net_h
          /\ loss.v = Net_loss
    /\ (Tracked /\ UpdateStarts) =>
          \A p \in ParamsOf(loop) :
              /\ ~grad[p].none => grad[p].v = Net_grad(p)
              /\ grad[p].none => (p \in {W_mid, B_mid} /\ Net_grad(p) = 0)
    /\ (~Tracked /\ UpdateStarts) =>
          bp.grad_w1 = Net_grad("w1") /\ bp.grad_w2 = Net_grad("w2")

\* C11's case: the momentum buffer the first iteration left makes the second
\* step of the DynamicNet loop differ from a fresh optimizer's.
C11_Witness ==
    /\ loop = "dynamic_net" /\ pc = "step" /\ t = 1
    /\ \E p \in ParamsOf(loop) :
          /\ ~grad[p].none
          /\ grad[p].v = Net_grad(p)
          /\ opt_state[p] # FreshOptState
          /\ OptDelta(loop, opt_state[p], grad[p].v)
                 # OptDelta(loop, FreshOptState, grad[p].v)
-----------------------------------------------------------------------------
\* The statements after loss.backward() has returned, up to the first reset.
AfterBackwardPcs == {"no_grad", "update_w1", "update_w2", "zero_w1", "param_loop", "step"}

(* C12: a gradient accumulates only on a tensor whose requires_grad flag is
   set.  The flags stay as the cell created them; x and y, and every tensor
   of the cells that do not use autograd, never get a .grad; after every
   loss.backward() each parameter the forward pass used holds one, and the
   update finds a gradient on every tensor it reads one from. *)
C12_GradOnlyWhereTracked ==
    /\ requires_grad = InitRequiresGrad(loop)
    /\ \A p \in LeavesOf(loop) : ~requires_grad[p] => grad[p] = None
    /\ grad["x"] = None /\ grad["y"] = None
    /\ (Tracked /\ pc \in AfterBackwardPcs) =>
          \A p \in ParamsOf(loop) :
              (grad[p].none => loop = "dynamic_net" /\ p \in {W_mid, B_mid})
    /\ (loop \in AutogradLoops /\ (t > 0 \/ pc \in UpdatePcs)) =>
          ~grad["w1"].none /\ ~grad["w2"].none
    /\ pc # "error"

\* C12's case: the second backward traversal of the autograd loop has left
\* gradients on w1 and w2 and none on x and y.
C12_Witness ==
    /\ loop = "autograd" /\ t = 1 /\ pc = "no_grad"
    /\ ~grad["w1"].none /\ grad["w1"].v # 0
    /\ ~grad["w2"].none /\ grad["w2"].v # 0
    /\ grad["x"] = None /\ grad["y"] = None
-----------------------------------------------------------------------------
(* Finite differences *)

\* The forward function of node n's operator, as a function of the value v
\* of its differentiated input, the other operands being those n saved.
ForwardOf(n, v) ==
    CASE n.op \in {"mm", "addmm"}    -> mm(v, n.w)
      [] n.op \in {"clamp", "relu"}  -> clamp_min0(v)
      [] n.op = "MyReLU"             -> MyReLU_forward(v)
      [] n.op \in {"sub", "sum"}     -> v
      [] n.op \in {"pow", "mse_loss"} -> v * v

\* The steps e of the central difference.
FDSteps == {1, 2}

\* 2e times the central finite-difference estimate at n's input.
CentralDiff(n, e) == ForwardOf(n, n.a + e) - ForwardOf(n, n.a - e)

ReluOps == {"clamp", "relu", "MyReLU"}

\* The nodes a backward traversal has run the backward function of.
VisitedNodes == {id \in DOMAIN graph : graph[id].visited = 1}

(* C13, as stated: for every operator and every input, also an input of a
   clamp that is exactly zero, the analytic backward equals the central
   finite-difference estimate times the incoming gradient. *)
C13_Original ==
    \A id \in VisitedNodes : \A e \in FDSteps :
        (graph[id].op \in ReluOps => graph[id].a = 0 \/ graph[id].a >= e
                                        \/ graph[id].a <= -e) =>
            2 * e * GradInput(graph[id], graph[id].grad_output)
                = CentralDiff(graph[id], e) * graph[id].grad_output

(* C13, amended: the analytic backward of every operator equals the central
   finite-difference estimate times the incoming gradient, for the clamp
   operators at every input at least e away from zero.  At an input that is
   exactly zero the estimate is half the incoming gradient, while
   MyReLU.backward and clamp return the whole incoming gradient and nn.ReLU
   returns zero. *)
C13_FiniteDifference ==
    \A id \in VisitedNodes : \A e \in FDSteps :
        LET n == graph[id]
            g == n.grad_output
        IN  /\ (n.op \notin ReluOps \/ n.a >= e \/ n.a <= -e) =>
                  2 * e * GradInput(n, g) = CentralDiff(n, e) * g
            /\ (n.op \in ReluOps /\ n.a = 0) =>
                  /\ CentralDiff(n, e) * g = e * g
                  /\ GradInput(n, g) = IF n.op = "relu" THEN 0 ELSE g

\* C13's case: MyReLU.backward has run at an input that is exactly zero, and
\* its result is twice the finite-difference estimate.
C13_Witness ==
    \E id \in VisitedNodes :
        /\ graph[id].op = "MyReLU" /\ graph[id].a = 0
        /\ graph[id].grad_output # 0
        /\ 2 * GradInput(graph[id], graph[id].grad_output)
               = 2 * CentralDiff(graph[id], 1) * graph[id].grad_output
-----------------------------------------------------------------------------
\* The loop has ended, or its exploration has.
EndPcs == {"done", "capped"}

\* Loss reports, and forward passes, completed so far.
ReportsDone == IF pc \in ForwardPcs \cup {"print"} \cup EndPcs THEN t ELSE t + 1
ForwardsDone == IF pc \in ForwardPcs \cup EndPcs THEN t ELSE t + 1

(* C14: each loop runs for t = 0 .. 499 and then ends.  The counter goes up
   by one per pass through the body, each pass reports one loss, builds one
   graph, traverses it once and updates every parameter once; no statement
   of the body fails; the loop is over exactly when the counter is 500, and
   nothing runs after it. *)
C14_FixedIterationCount ==
    /\ t \in 0 .. NumIters
    /\ pc = "done" <=> t = NumIters
    /\ pc # "error"
    /\ Len(out) = ReportsDone
    /\ \A p \in ParamsOf(loop) :
          updates[p] = t \/ (pc \in UpdatePcs /\ updates[p] = t + 1)
    /\ (Tracked /\ loop # "dynamic_net" /\ pc \notin ForwardPcs) =>
          next_id = 1 + ExpectedNodes * ForwardsDone
    /\ (Tracked /\ pc \in UpdatePcs \cup EndPcs) =>
          \A id \in LossGraph : graph[id].visited = 1
    /\ (Tracked /\ pc \in ForwardPcs \cup {"print", "zero_grad", "backward"}) =>
          \A id \in NodesOfIter(t) : graph[id].visited = 0
    /\ pc = "done" => ~ENABLED Next

\* C14's case: the autograd loop has run its 500 iterations and ended.
C14_Witness ==
    /\ loop = "autograd" /\ pc = "done" /\ t = NumIters
    /\ Len(out) = NumIters
    /\ UpdatesDone(NumIters)
    /\ next_id = 1 + 6 * NumIters
-----------------------------------------------------------------------------
\* What the visit of node n by the backward traversal adds to p.grad.
Contribution(n, p) ==
    IF p = n.wLeaf THEN GradLeaf(n, "w", n.grad_output)
    ELSE IF p = n.bLeaf THEN GradLeaf(n, "b", n.grad_output)
    ELSE IF p = n.aLeaf THEN GradLeaf(n, "a", n.grad_output)
    ELSE 0

RECURSIVE TraversalGrad(_, _)
\* The gradient of leaf p the traversal of the graph from node id produces.
TraversalGrad(id, p) ==
    IF id = 0 \/ id \notin DOMAIN graph THEN 0
    ELSE Contribution(graph[id], p) + TraversalGrad(graph[id].inp, p)

\* The statement about to execute reads p.grad to update p.
ReadsGrad(p) ==
    \/ pc = "update_w1" /\ p = "w1"
    \/ pc = "update_w2" /\ p = "w2"
    \/ pc = "param_loop" /\ p = ParamSeq(loop)[param_i + 1]
    \/ pc = "step" /\ ~grad[p].none

(* C16: when the update of iteration t reads a parameter's gradient, the
   gradient is what the backward traversal of iteration t's graph produced,
   with nothing of an earlier iteration in it: in the first iteration, where
   the accumulator starts unset, in the loops that zero after the update and
   in the loops that zero between forward and backward. *)
C16_GradientIsFresh ==
    Tracked =>
        \A p \in ParamsOf(loop) :
            ReadsGrad(p) =>
                /\ grad[p] = Some(TraversalGrad(loss.fn, p))
                /\ \A id \in LossGraph : graph[id].iter = t /\ graph[id].visited = 1

\* C16's case: the nn loop reads, in its second iteration, a non-zero
\* gradient for its first parameter.
C16_Witness ==
    /\ loop = "nn" /\ t = 1 /\ pc = "param_loop" /\ param_i = 0
    /\ grad["linear1.weight"] = Some(TraversalGrad(loss.fn, "linear1.weight"))
    /\ grad["linear1.weight"].v # 0
    /\ param["linear1.weight"] # 0
-----------------------------------------------------------------------------
\* The cells with a hand-written backward: the whole pass, or MyReLU's.
HandWrittenLoops == ManualLoops \cup {"custom_function"}

\* The gradient the update of w reads: a local of the hand-written pass, or
\* the accumulator loss.backward() filled.
GradRead(w) ==
    IF loop \in ManualLoops
    THEN (IF w = "w1" THEN bp.grad_w1 ELSE bp.grad_w2)
    ELSE grad[w].v

\* The gradients of the two-layer network written out over the values of the
\* forward pass: grad_w2 = h_relu^T * 2(y_pred - y) and
\* grad_w1 = x^T * mask(2(y_pred - y) * w2^T), the mask zeroing where h < 0.
FormulaGrad(w) ==
    LET g  == 2 * (y_pred.v - y)
        gh == IF h.v < 0 THEN 0 ELSE g * param["w2"]
    IN  IF w = "w2" THEN h_relu.v * g ELSE x * gh

\* The forward values are those of the weights as they are now.
ForwardOfCurrent(w) ==
    IF w = "w1"
    THEN /\ h.v = mm(x, param["w1"])
         /\ h_relu.v = clamp_min0(h.v)
         /\ y_pred.v = mm(h_relu.v, param["w2"])
    ELSE y_pred.v = mm(h_relu.v, param["w2"])

\* If this step updates w, it subtracts learning_rate times the formula's
\* gradient, read off forward values of weights not changed since, and
\* leaves the other weight alone.
UpdateAsFormula(w) ==
    updates'[w] # updates[w] =>
        /\ updates'[w] = updates[w] + 1
        /\ updates["w2"] = t
        /\ ForwardOfCurrent(w)
        /\ GradRead(w) = FormulaGrad(w)
        /\ param'[w] = param[w] - Scaled(loop, FormulaGrad(w))
        /\ \A v \in {"w1", "w2"} \ {w} : param'[v] = param[v]

(* C17: in the numpy cell, the Tensor cell and the autograd cell that uses
   MyReLU alike, each weight update subtracts learning_rate times the same
   gradient: grad_w2 = h_relu^T * 2(y_pred - y) for w2 and
   grad_w1 = x^T * mask(2(y_pred - y) * w2^T) for w1, over the forward values
   of the weights as they were before either was changed.  From the same x,
   y, w1 and w2 the three cells so have the same gradients and the same
   weights after every iteration. *)
C17_ManualEqualsAutograd ==
    [][(loop \in HandWrittenLoops) =>
          (UpdateAsFormula("w1") /\ UpdateAsFormula("w2"))]_vars

\* C17's case: the cell that uses MyReLU is about to update w2 in its second
\* iteration, w1 already changed by a non-zero gradient.
C17_Witness ==
    /\ loop = "custom_function" /\ t = 1 /\ pc = "update_w2"
    /\ updates["w1"] = 2 /\ updates["w2"] = 1
    /\ grad["w2"].v = FormulaGrad("w2") /\ grad["w2"].v # 0
    /\ grad["w1"].v # 0
    /\ mm(x, param["w1"] + Scaled(loop, grad["w1"].v)) = h.v
-----------------------------------------------------------------------------
\* The leaves node n read.
LeavesRead(n) == {n.aLeaf, n.wLeaf, n.bLeaf} \ {""}

(* C18: loss.backward() is never rejected.  Whenever it is about to be
   called the loss is a scalar, the result of a full sum reduction; its
   graph was recorded by the forward pass of this iteration, reads at least
   one leaf that tracks gradients, and has not been traversed. *)
C18_BackwardNeverRejected ==
    /\ pc # "error"
    /\ pc = "backward" =>
          /\ ~BackwardRejected
          /\ loss.scalar
          /\ loss.fn \in DOMAIN graph
          /\ graph[loss.fn].op \in {"sum", "mse_loss"}
          /\ graph[loss.fn].iter = t
          /\ \A id \in LossGraph : graph[id].iter = t /\ graph[id].visited = 0
          /\ \E id \in LossGraph :
                \E p \in LeavesRead(graph[id]) : requires_grad[p]
          /\ y_pred.fn \in LossGraph

\* C18's case: the DynamicNet loop is about to call loss.backward() for the
\* second time, on a graph in which the shared layer was not used.
C18_Witness ==
    /\ loop = "dynamic_net" /\ t = 1 /\ pc = "backward" /\ k = 0
    /\ ~BackwardRejected
    /\ loss.scalar /\ graph[loss.fn].visited = 0
    /\ Cardinality(LossGraph) = 4
-----------------------------------------------------------------------------
\* The step about to be taken is a call of MyReLU.backward, of
\* MyReLU.forward, or the masking of the hand-written backward pass.
MyReLUBackwardStep == pc = "bw" /\ cursor # 0 /\ graph[cursor].op = "MyReLU"
MyReLUForwardStep == loop = "custom_function" /\ pc = "relu"
MaskStep == loop \in ManualLoops /\ pc = "grad_h"

\* MyReLU.backward returns a function of the saved x and of grad_output and
\* changes neither, nor anything else the forward pass bound.
BackwardFrame ==
    /\ gout' = (IF graph[cursor].a < 0 THEN 0 ELSE gout)
    /\ graph'[cursor].a = graph[cursor].a
    /\ graph'[cursor].a = h.v
    /\ graph'[cursor].grad_output = gout
    /\ h' = h /\ h_relu' = h_relu /\ y_pred' = y_pred /\ param' = param

\* MyReLU.forward returns a new tensor, caches its input and leaves it as it was.
ForwardFrame ==
    /\ h' = h
    /\ h_relu'.v = clamp_min0(h.v)
    /\ h_relu'.fn # h.fn /\ h_relu'.fn \notin DOMAIN graph
    /\ graph'[h_relu'.fn].a = h.v

\* The hand-written mask goes into the copy grad_h.
MaskFrame ==
    /\ bp'.grad_h = (IF h.v < 0 THEN 0 ELSE bp.grad_h_relu)
    /\ bp'.grad_h_relu = bp.grad_h_relu
    /\ bp'.grad_y_pred = bp.grad_y_pred /\ bp'.grad_w2 = bp.grad_w2
    /\ h' = h /\ h_relu' = h_relu

(* C19: MyReLU.backward computes its result from the saved input and the
   incoming gradient alone and changes neither of them; MyReLU.forward
   returns a new tensor and leaves its input unchanged; the hand-written
   backward passes write their mask into the copy grad_h and leave
   grad_h_relu and h unchanged. *)
C19_NoSideEffects ==
    [][/\ MyReLUBackwardStep => BackwardFrame
       /\ MyReLUForwardStep => ForwardFrame
       /\ MaskStep => MaskFrame]_vars

\* C19's case: MyReLU.backward has masked a non-zero incoming gradient to
\* zero; the incoming gradient and the saved input are as they were.
C19_Witness ==
    \E id \in DOMAIN graph :
        /\ graph[id].op = "MyReLU" /\ JustVisited(graph[id])
        /\ graph[id].a < 0 /\ graph[id].a = h.v
        /\ graph[id].grad_output # 0
        /\ gout = 0
====
